---- MODULE Spec2Model ----
(***************************************************************************)
(* A model of scrape_to_ics.py: the Landmark Theatre calendar scraper.     *)
(*                                                                         *)
(* Text is modelled character by character: a Python str is a sequence of  *)
(* one-character strings, so that the regular expressions, the f-string    *)
(* formatting and the escaping of the source are computed, not assumed.    *)
(* The en dash U+2013 is the atom EnDash.  Python's None is the record     *)
(* None where a datetime or a list is expected and the number NoMonth      *)
(* where MONTHS.get() gives a month number.                                *)
(***************************************************************************)
EXTENDS Integers, Sequences, FiniteSets, TLC

VARIABLES
    pc,           \* main's position
    clock,        \* what datetime.now() answers during the run
    candidates,   \* the candidate nodes parse_calendar has iterated over
    events,       \* parse_calendar's list `events`
    origin,       \* history: for each element of events, its node's index
    seen_titles,  \* parse_calendar's set `seen_titles`
    file,         \* calendar.ics: whether it exists, and the lines written
    status,       \* the process's exit status, -1 while running
    arg,          \* the argument of a function applied on its own
    ret           \* what the function returned (escape_ics: each result in turn)

vars == <<pc, clock, candidates, events, origin, seen_titles, file, status, arg, ret>>

(***************************************************************************)
(* Bounds of the model                                                     *)
(***************************************************************************)
MaxCandidates == 3   \* candidate nodes parse_calendar iterates over
MaxTextLen == 3      \* characters of a text handed to escape_ics

(***************************************************************************)
(* Characters and strings                                                  *)
(***************************************************************************)
BS == "\\"
NL == "\n"
EnDash == "ndash"
None == [none |-> TRUE]
Naive == "naive"   \* the tzinfo of a datetime that has none
NoMonth == 0

Digits == {"0", "1", "2", "3", "4", "5", "6", "7", "8", "9"}
UpperLetters == {"A", "B", "C", "D", "E", "F", "G", "H", "I", "J", "K", "L", "M",
                 "N", "O", "P", "Q", "R", "S", "T", "U", "V", "W", "X", "Y", "Z"}
LowerLetters == {"a", "b", "c", "d", "e", "f", "g", "h", "i", "j", "k", "l", "m",
                 "n", "o", "p", "q", "r", "s", "t", "u", "v", "w", "x", "y", "z"}
Letters == UpperLetters \cup LowerLetters
Whitespace == {" ", NL}   \* \s, of the characters the texts here are made of
Dashes == {EnDash, "-"}

DigitVal(c) ==
    CASE c = "0" -> 0 [] c = "1" -> 1 [] c = "2" -> 2 [] c = "3" -> 3 [] c = "4" -> 4
      [] c = "5" -> 5 [] c = "6" -> 6 [] c = "7" -> 7 [] c = "8" -> 8 [] c = "9" -> 9

DigitChar(d) ==
    CASE d = 0 -> "0" [] d = 1 -> "1" [] d = 2 -> "2" [] d = 3 -> "3" [] d = 4 -> "4"
      [] d = 5 -> "5" [] d = 6 -> "6" [] d = 7 -> "7" [] d = 8 -> "8" [] d = 9 -> "9"

\* s[i..j], empty when j < i
Slice(s, i, j) == IF j < i THEN <<>> ELSE SubSeq(s, i, j)

\* int(): the value of a run of decimal digits
RECURSIVE ToInt(_)
ToInt(s) ==
    IF s = <<>> THEN 0
    ELSE 10 * ToInt(Slice(s, 1, Len(s) - 1)) + DigitVal(s[Len(s)])

\* str() of a natural number, as an f-string formats it
RECURSIVE IntToStr(_)
IntToStr(n) ==
    IF n < 10 THEN <<DigitChar(n)>>
    ELSE IntToStr(n \div 10) \o <<DigitChar(n % 10)>>

\* how many characters of s from position i on lie in set, at most max
RECURSIVE Span(_, _, _, _)
Span(s, i, set, max) ==
    IF max = 0 \/ i > Len(s) \/ s[i] \notin set THEN 0
    ELSE 1 + Span(s, i + 1, set, max - 1)

\* str.lower() on the letters of the model
Lower(c) ==
    CASE c = "A" -> "a" [] c = "B" -> "b" [] c = "C" -> "c" [] c = "D" -> "d"
      [] c = "E" -> "e" [] c = "F" -> "f" [] c = "G" -> "g" [] c = "H" -> "h"
      [] c = "I" -> "i" [] c = "J" -> "j" [] c = "K" -> "k" [] c = "L" -> "l"
      [] c = "M" -> "m" [] c = "N" -> "n" [] c = "O" -> "o" [] c = "P" -> "p"
      [] c = "Q" -> "q" [] c = "R" -> "r" [] c = "S" -> "s" [] c = "T" -> "t"
      [] c = "U" -> "u" [] c = "V" -> "v" [] c = "W" -> "w" [] c = "X" -> "x"
      [] c = "Y" -> "y" [] c = "Z" -> "z" [] OTHER -> c

LowerStr(s) == [i \in 1..Len(s) |-> Lower(s[i])]

(***************************************************************************)
(* Regular expressions.  A match in progress is a record: the string s,    *)
(* the position pos of the next character, whether the pattern has matched *)
(* so far (ok), where the open group began (mark) and the text of each     *)
(* group (<<>> for a group that took no part, Python's None).  A pattern   *)
(* is the composition of its pieces, innermost first.  Each piece takes all *)
(* it can: in the patterns of this program a piece that gave characters    *)
(* back would leave the next piece facing a character it cannot take, so   *)
(* the engine's backtracking finds nothing more, except at the two places  *)
(* (the hour and the minutes of TIME_ONLY) where the alternatives are      *)
(* listed in the engine's order.                                           *)
(***************************************************************************)
re_start(s, i, names) ==
    [s |-> s, pos |-> i, ok |-> TRUE, mark |-> i, groups |-> [g \in names |-> <<>>]]

re_fail(m) == [m EXCEPT !.ok = FALSE]

\* between min and max characters of set: [set]{min,max}
re_many(m, set, min, max) ==
    IF m.ok /\ Span(m.s, m.pos, set, min) = min
    THEN [m EXCEPT !.pos = @ + Span(m.s, m.pos, set, max)]
    ELSE re_fail(m)

\* [set]* and [set]+
re_star(m, set) == re_many(m, set, 0, Len(m.s))
re_plus(m, set) == re_many(m, set, 1, Len(m.s))

\* one character of set
re_one(m, set) == re_many(m, set, 1, 1)

\* (?P<name> ... ): re_open before the group's pieces, re_close after them
re_open(m) == [m EXCEPT !.mark = m.pos]
re_close(m, name) ==
    IF m.ok THEN [m EXCEPT !.groups[name] = Slice(m.s, m.mark, m.pos - 1)] ELSE m

\* ( ... )?: the match with the group, tried, if it matched, else the match m
\* without it
re_optional(m, tried) == IF tried.ok THEN tried ELSE m

\* $ on a stripped string: the end of the string
re_end(m) == IF m.ok /\ m.pos = Len(m.s) + 1 THEN m ELSE re_fail(m)

\* [^\n] on string s
NotNewline(s) == {s[k] : k \in 1..Len(s)} \ {NL}

\* the first of four alternatives that matched, else the last
re_first(m1, m2, m3, m4) ==
    IF m1.ok THEN m1 ELSE IF m2.ok THEN m2 ELSE IF m3.ok THEN m3 ELSE m4

(***************************************************************************)
(* escape_ics                                                              *)
(***************************************************************************)
\* str.replace(old, new) for a one-character old
RECURSIVE Replace(_, _, _)
Replace(s, old, new) ==
    IF s = <<>> THEN <<>>
    ELSE (IF s[1] = old THEN new ELSE <<s[1]>>) \o Replace(Tail(s), old, new)

\* a slip in the order of the replacements: the backslash is escaped last
escape_ics_backslash_last(text) ==
    Replace(Replace(Replace(Replace(text, ";", <<BS, ";">>), ",", <<BS, ",">>),
                    NL, <<BS, "n">>), BS, <<BS, BS>>)

escape_ics(text) ==
    Replace(Replace(Replace(Replace(text, BS, <<BS, BS>>), ";", <<BS, ";">>),
                    ",", <<BS, ",">>), NL, <<BS, "n">>)

(***************************************************************************)
(* Module constants                                                        *)
(***************************************************************************)
SITE_TZ == "America/New_York"
DEFAULT_EVENT_DURATION_HOURS == 2

Str_January   == <<"J", "a", "n", "u", "a", "r", "y">>
Str_February  == <<"F", "e", "b", "r", "u", "a", "r", "y">>
Str_March     == <<"M", "a", "r", "c", "h">>
Str_April     == <<"A", "p", "r", "i", "l">>
Str_May       == <<"M", "a", "y">>
Str_June      == <<"J", "u", "n", "e">>
Str_July      == <<"J", "u", "l", "y">>
Str_August    == <<"A", "u", "g", "u", "s", "t">>
Str_September == <<"S", "e", "p", "t", "e", "m", "b", "e", "r">>
Str_October   == <<"O", "c", "t", "o", "b", "e", "r">>
Str_November  == <<"N", "o", "v", "e", "m", "b", "e", "r">>
Str_December  == <<"D", "e", "c", "e", "m", "b", "e", "r">>

\* the dict MONTHS, as its (key, value) pairs
MONTHS ==
    { <<Str_January, 1>>, <<Str_February, 2>>, <<Str_March, 3>>, <<Str_April, 4>>,
      <<Str_May, 5>>, <<Str_June, 6>>, <<Str_July, 7>>, <<Str_August, 8>>,
      <<Str_September, 9>>, <<Str_October, 10>>, <<Str_November, 11>>,
      <<Str_December, 12>>,
      <<<<"J", "a", "n", ".">>, 1>>, <<<<"F", "e", "b", ".">>, 2>>,
      <<<<"M", "a", "r", ".">>, 3>>, <<<<"A", "p", "r", ".">>, 4>>,
      <<<<"J", "u", "n", ".">>, 6>>, <<<<"J", "u", "l", ".">>, 7>>,
      <<<<"A", "u", "g", ".">>, 8>>, <<<<"S", "e", "p", "t", ".">>, 9>>,
      <<<<"O", "c", "t", ".">>, 10>>, <<<<"N", "o", "v", ".">>, 11>>,
      <<<<"D", "e", "c", ".">>, 12>> }

\* MONTHS.get(key): the month number, or NoMonth for Python's None
MONTHS_get(key) ==
    IF \E kv \in MONTHS : kv[1] = key
    THEN (CHOOSE kv \in MONTHS : kv[1] = key)[2]
    ELSE NoMonth

(***************************************************************************)
(* datetime and dateutil.parser.parse                                      *)
(***************************************************************************)
DaysInMonth(y, m) ==
    IF m \in {4, 6, 9, 11} THEN 30
    ELSE IF m = 2 THEN (IF (y % 4 = 0 /\ y % 100 # 0) \/ y % 400 = 0 THEN 29 ELSE 28)
    ELSE 31

\* An operation that may raise answers a record: the exception, Raised(what), or
\* its value (a datetime's fields, or Returned(v) for a value that is no record)
Raised(what) == [raised |-> what]
Returned(v) == [value |-> v]
IsRaised(r) == "raised" \in DOMAIN r

\* datetime(...): the fields, or the ValueError datetime raises

datetime(y, m, d, h, mi, tz) ==
    IF m \in 1..12 /\ y \in 1..9999 /\ d >= 1 /\ d <= DaysInMonth(y, m)
       /\ h \in 0..23 /\ mi \in 0..59
    THEN [year |-> y, month |-> m, day |-> d, hour |-> h, minute |-> mi, tzinfo |-> tz]
    ELSE Raised("ValueError")

\* datetime.replace(tzinfo=..., hour=..., minute=...)
replace_time(dt, h, mi, tz) == datetime(dt.year, dt.month, dt.day, h, mi, tz)
replace_tz(dt, tz) == datetime(dt.year, dt.month, dt.day, dt.hour, dt.minute, tz)

\* dateutil's parserinfo.MONTHS, looked up in lower case
dateutil_MONTHS ==
    { <<LowerStr(Str_January), 1>>, <<LowerStr(Str_February), 2>>,
      <<LowerStr(Str_March), 3>>, <<LowerStr(Str_April), 4>>, <<LowerStr(Str_May), 5>>,
      <<LowerStr(Str_June), 6>>, <<LowerStr(Str_July), 7>>, <<LowerStr(Str_August), 8>>,
      <<LowerStr(Str_September), 9>>, <<LowerStr(Str_October), 10>>,
      <<LowerStr(Str_November), 11>>, <<LowerStr(Str_December), 12>>,
      <<<<"j", "a", "n">>, 1>>, <<<<"f", "e", "b">>, 2>>, <<<<"m", "a", "r">>, 3>>,
      <<<<"a", "p", "r">>, 4>>, <<<<"j", "u", "n">>, 6>>, <<<<"j", "u", "l">>, 7>>,
      <<<<"a", "u", "g">>, 8>>, <<<<"s", "e", "p">>, 9>>, <<<<"s", "e", "p", "t">>, 9>>,
      <<<<"o", "c", "t">>, 10>>, <<<<"n", "o", "v">>, 11>>, <<<<"d", "e", "c">>, 12>> }

dateutil_month(word) ==
    IF \E kv \in dateutil_MONTHS : kv[1] = LowerStr(word)
    THEN (CHOOSE kv \in dateutil_MONTHS : kv[1] = LowerStr(word))[2]
    ELSE NoMonth

\* the end of a string handed to dateutil: nothing, or " H:MM"
dateutil_time(m) ==
    re_end(re_optional(m,
        re_close(re_many(re_open(re_one(
            re_close(re_many(re_open(re_plus(m, Whitespace)), Digits, 1, 2), "hour"),
            {":"})), Digits, 2, 2), "minute")))

\* "M/D/Y" with an optional " H:MM"
dateutil_numeric(s) ==
    dateutil_time(
        re_close(re_plus(re_open(re_one(
            re_close(re_plus(re_open(re_one(
                re_close(re_plus(re_open(
                    re_start(s, 1, {"a", "b", "c", "hour", "minute"})),
                    Digits), "a"),
                {"/"})), Digits), "b"),
            {"/"})), Digits), "c"))

\* "<word> D, YYYY" with an optional " H:MM"
dateutil_worded(s) ==
    dateutil_time(
        re_close(re_many(re_open(re_star(re_one(
            re_close(re_many(re_open(re_plus(
                re_close(re_plus(re_open(
                    re_start(s, 1, {"word", "day", "year", "hour", "minute"})),
                    Letters), "word"),
                Whitespace)), Digits, 1, 2), "day"),
            {","}), Whitespace)), Digits, 4, 4), "year"))

\* a word and nothing else
dateutil_word(s) ==
    re_end(re_close(re_plus(re_open(re_start(s, 1, {"word"})), Letters), "word"))

\* the date of "M/D/Y": day first when the first number cannot be a month
numeric_date(a, b, c, hour, minute) ==
    IF a > 12 /\ b <= 12 THEN datetime(c, b, a, hour, minute, Naive)
    ELSE datetime(c, a, b, hour, minute, Naive)

\* a bare month: the other fields come from default, the day clamped to the
\* month's length
month_of_default(month, default) ==
    IF month = NoMonth THEN Raised("ValueError")
    ELSE IF default.day > DaysInMonth(default.year, month)
    THEN datetime(default.year, month, DaysInMonth(default.year, month), 0, 0, Naive)
    ELSE datetime(default.year, month, default.day, 0, 0, Naive)

worded_date(month, day, year, hour, minute) ==
    IF month = NoMonth THEN Raised("ValueError")
    ELSE datetime(year, month, day, hour, minute, Naive)

\* dateutil.parser.parse(s) on the strings this program builds: "M/D/Y",
\* "<month name> D, YYYY" and a bare month name, the first two optionally
\* followed by " H:MM".  Anything else is the ParserError (a ValueError) dateutil
\* raises for a string it does not recognise.
dtparse_parse(s, default) ==
    IF dateutil_numeric(s).ok
    THEN numeric_date(ToInt(dateutil_numeric(s).groups.a),
                      ToInt(dateutil_numeric(s).groups.b),
                      ToInt(dateutil_numeric(s).groups.c),
                      ToInt(dateutil_numeric(s).groups.hour),
                      ToInt(dateutil_numeric(s).groups.minute))
    ELSE IF dateutil_word(s).ok
    THEN month_of_default(dateutil_month(s), default)
    ELSE IF dateutil_worded(s).ok
    THEN worded_date(dateutil_month(dateutil_worded(s).groups.word),
                     ToInt(dateutil_worded(s).groups.day),
                     ToInt(dateutil_worded(s).groups.year),
                     ToInt(dateutil_worded(s).groups.hour),
                     ToInt(dateutil_worded(s).groups.minute))
    ELSE Raised("ValueError")

(***************************************************************************)
(* TIME_ONLY and parse_date_time                                           *)
(***************************************************************************)
TIME_ONLY_groups == {"hour", "min", "ampm"}

\* (?P<hour>\d{1,2}) taking n digits
TIME_ONLY_hour(m, n) == re_close(re_many(re_open(m), Digits, n, n), "hour")

\* (?::(?P<min>\d{2}))
TIME_ONLY_min(m) == re_close(re_many(re_open(re_one(m, {":"})), Digits, 2, 2), "min")

\* \s*(?P<ampm>[ap]m|AM|PM) under re.IGNORECASE; the \*? that follows always
\* matches
TIME_ONLY_ampm(m) ==
    re_close(re_one(re_one(re_open(re_star(m, Whitespace)),
                           {"a", "p", "A", "P"}), {"m", "M"}), "ampm")

\* TIME_ONLY tried at position i, in the order the regex engine tries: the hour
\* takes two digits before one, the minutes group is taken before it is skipped
TIME_ONLY_at(s, i) ==
    re_first(
        TIME_ONLY_ampm(TIME_ONLY_min(TIME_ONLY_hour(re_start(s, i, TIME_ONLY_groups), 2))),
        TIME_ONLY_ampm(TIME_ONLY_hour(re_start(s, i, TIME_ONLY_groups), 2)),
        TIME_ONLY_ampm(TIME_ONLY_min(TIME_ONLY_hour(re_start(s, i, TIME_ONLY_groups), 1))),
        TIME_ONLY_ampm(TIME_ONLY_hour(re_start(s, i, TIME_ONLY_groups), 1)))

\* pattern.search(s): the match at the leftmost position from i on that has one
RECURSIVE TIME_ONLY_from(_, _)
TIME_ONLY_from(s, i) ==
    IF i > Len(s) THEN re_fail(re_start(s, i, TIME_ONLY_groups))
    ELSE IF TIME_ONLY_at(s, i).ok THEN TIME_ONLY_at(s, i)
    ELSE TIME_ONLY_from(s, i + 1)

TIME_ONLY_search(s) == TIME_ONLY_from(s, 1)

\* a slip: twelve is treated like any other hour
hour_24_no_noon_rule(hour, ampm) == IF ampm = <<"p", "m">> THEN hour + 12 ELSE hour

\* the meridiem conversion of parse_date_time
hour_24(hour, ampm) ==
    IF ampm = <<"p", "m">> /\ hour # 12 THEN hour + 12
    ELSE IF ampm = <<"a", "m">> /\ hour = 12 THEN 0
    ELSE hour

\* [dt] if dt else [], and dt, or None for what raised
or_none(dt) == IF IsRaised(dt) THEN None ELSE dt

\* dtparse.parse(date_str).replace(tzinfo=SITE_TZ, hour=hour, minute=minute)
with_time(parsed, hour, minute) ==
    IF IsRaised(parsed) THEN parsed ELSE replace_time(parsed, hour, minute, SITE_TZ)

\* dtparse.parse(...).replace(tzinfo=SITE_TZ)
with_tz(parsed) == IF IsRaised(parsed) THEN parsed ELSE replace_tz(parsed, SITE_TZ)

\* parse_date_time: the datetime in SITE_TZ, or None when anything raised;
\* default is the date dateutil fills missing fields from
parse_date_time(date_str, time_str, default) ==
    IF TIME_ONLY_search(time_str).ok
    THEN or_none(with_time(dtparse_parse(date_str, default),
                           hour_24(ToInt(TIME_ONLY_search(time_str).groups.hour),
                                   LowerStr(TIME_ONLY_search(time_str).groups.ampm)),
                           ToInt(TIME_ONLY_search(time_str).groups.min)))
    ELSE or_none(with_tz(dtparse_parse(date_str \o <<" ">> \o time_str, default)))

(***************************************************************************)
(* The date-line patterns.  The lines they are given are stripped strings  *)
(* (no white space at either end).                                         *)
(***************************************************************************)
\* DATE_RANGE_BULLET.search(b): the pattern starts with ^, so only position 1
\* ^(?P<mon>[A-Za-z]{3,4}\.?)[\s]+(?P<day>\d{1,2})\s*[-]\s*(?P<time>[0-9:apmAPM\.]+)
DATE_RANGE_BULLET(b) ==
    re_close(re_plus(re_open(re_star(re_one(re_star(
        re_close(re_many(re_open(re_plus(
            re_close(re_many(re_many(re_open(
                re_start(b, 1, {"mon", "day", "time"})),
                Letters, 3, 4), {"."}, 0, 1), "mon"),
            Whitespace)), Digits, 1, 2), "day"),
        Whitespace), Dashes), Whitespace)), Digits \cup {":", "a", "p", "m", "A", "P", "M", "."}), "time")

\* (?:,\s*(?P<year>\d{4}))
SINGLE_DATE_LINE_year(m) ==
    re_close(re_many(re_open(re_star(re_one(m, {","}), Whitespace)), Digits, 4, 4),
             "year")

\* ^(?P<month>[A-Za-z]{3,9})\s+(?P<day>\d{1,2}) and what may follow the day
SINGLE_DATE_LINE_day(line) ==
    re_close(re_many(re_open(re_plus(
        re_close(re_many(re_open(
            re_start(line, 1, {"month", "day", "year", "time"})),
            Letters, 3, 9), "month"),
        Whitespace)), Digits, 1, 2), "day")

\* SINGLE_DATE_LINE.match(line):
\* ^(?P<month>[A-Za-z]{3,9})\s+(?P<day>\d{1,2})(?:,\s*(?P<year>\d{4}))?\s*[-]\s*(?P<time>[^\n]+)$
SINGLE_DATE_LINE(line) ==
    re_end(re_close(re_plus(re_open(re_star(re_one(re_star(
        re_optional(SINGLE_DATE_LINE_day(line),
                    SINGLE_DATE_LINE_year(SINGLE_DATE_LINE_day(line))),
        Whitespace), Dashes), Whitespace)), NotNewline(line)), "time"))

\* ^(?P<start_mon>[A-Za-z]{3,9})\s+(?P<start_day>\d{1,2})\s*[-]\s*
RANGE_DATE_LINE_start(line) ==
    re_star(re_one(re_star(
        re_close(re_many(re_open(re_plus(
            re_close(re_many(re_open(
                re_start(line, 1,
                         {"start_mon", "start_day", "end_mon", "end_day", "year"})),
                Letters, 3, 9), "start_mon"),
            Whitespace)), Digits, 1, 2), "start_day"),
        Whitespace), Dashes), Whitespace)

\* (?P<end_mon>[A-Za-z]{3,9})
RANGE_DATE_LINE_end_mon(m) == re_close(re_many(re_open(m), Letters, 3, 9), "end_mon")

\* RANGE_DATE_LINE.match(line):
\* ^(?P<start_mon>[A-Za-z]{3,9})\s+(?P<start_day>\d{1,2})\s*[-]\s*
\*  (?P<end_mon>[A-Za-z]{3,9})?\s*(?P<end_day>\d{1,2}),\s*(?P<year>\d{4})$
RANGE_DATE_LINE(line) ==
    re_end(re_close(re_many(re_open(re_star(re_one(
        re_close(re_many(re_open(re_star(
            re_optional(RANGE_DATE_LINE_start(line),
                        RANGE_DATE_LINE_end_mon(RANGE_DATE_LINE_start(line))),
            Whitespace)), Digits, 1, 2), "end_day"),
        {","}), Whitespace)), Digits, 4, 4), "year"))

\* the pattern parse_event_page searches the page text for, tried at position i:
\* ([A-Za-z]{3,9}\s+\d{1,2},\s*\d{4})\s*[-]\s*([^\n]+)
PAGE_DATE_at(text, i) ==
    re_close(re_plus(re_open(re_star(re_one(re_star(
        re_close(re_many(re_star(re_one(re_many(re_plus(re_many(re_open(
            re_start(text, i, {"date_part", "time_part"})),
            Letters, 3, 9), Whitespace), Digits, 1, 2), {","}), Whitespace),
            Digits, 4, 4), "date_part"),
        Whitespace), Dashes), Whitespace)), NotNewline(text)), "time_part")

\* re.search: the match at the leftmost position from i on that has one
RECURSIVE PAGE_DATE_from(_, _)
PAGE_DATE_from(text, i) ==
    IF i > Len(text) THEN re_fail(re_start(text, i, {"date_part", "time_part"}))
    ELSE IF PAGE_DATE_at(text, i).ok THEN PAGE_DATE_at(text, i)
    ELSE PAGE_DATE_from(text, i + 1)

PAGE_DATE_search(text) == PAGE_DATE_from(text, 1)

(***************************************************************************)
(* Extraction: infer_year, parse_single_date_line, parse_range_block,      *)
(* parse_event_page.  A clock is what datetime.now() answers: the date in  *)
(* the system's own zone (.local), the date in SITE_TZ (.site) and the UTC *)
(* time (.utc).                                                            *)
(***************************************************************************)
infer_year(c) == IF c.site.month <= 11 THEN c.site.year ELSE c.site.year + 1

\* f"{month}/{day}/{year}"; a month that is None formats as the word None
date_str(month, day, year) ==
    (IF month = NoMonth THEN <<"N", "o", "n", "e">> ELSE IntToStr(month))
        \o <<"/">> \o IntToStr(day) \o <<"/">> \o IntToStr(year)

\* [dt] if dt else []
list_if(dt) == IF dt = None THEN <<>> ELSE <<dt>>

\* the end of parse_single_date_line, month being what MONTHS.get or dateutil
\* answered; the year is int(m.group("year") or datetime.now().year)
single_session(month, m, c) ==
    list_if(parse_date_time(date_str(month, ToInt(m.groups.day),
                                     IF m.groups.year # <<>> THEN ToInt(m.groups.year)
                                     ELSE c.local.year),
                            m.groups.time, c.local))

\* the month dateutil reads in a name MONTHS does not hold
single_guess(guessed, m, c) ==
    IF IsRaised(guessed) THEN <<>> ELSE single_session(guessed.month, m, c)

\* parse_single_date_line after the match
single_matched(m, c) ==
    IF MONTHS_get(m.groups.month) # NoMonth
    THEN single_session(MONTHS_get(m.groups.month), m, c)
    ELSE single_guess(dtparse_parse(m.groups.month, c.local), m, c)

parse_single_date_line(line, c) ==
    IF SINGLE_DATE_LINE(line).ok THEN single_matched(SINGLE_DATE_LINE(line), c) ELSE <<>>

\* Python's (a1, a2) < (b1, b2) on (month, day) pairs whose month may be None:
\* the first differing position decides, and None against a number raises
tuple_lt(a, b) ==
    IF a[1] = b[1] THEN Returned(a[2] < b[2])
    ELSE IF a[1] = NoMonth \/ b[1] = NoMonth THEN Raised("TypeError")
    ELSE Returned(a[1] < b[1])

\* the range check of parse_range_block: Returned(TRUE) to skip the bullet,
\* Returned(FALSE) to keep it, or the TypeError a comparison raised (`or` does
\* not evaluate its second operand when the first is true)
out_of_range(mon, day, smon, sd, emon, ed) ==
    IF IsRaised(tuple_lt(<<mon, day>>, <<smon, sd>>)) \/ tuple_lt(<<mon, day>>, <<smon, sd>>).value
    THEN tuple_lt(<<mon, day>>, <<smon, sd>>)
    ELSE tuple_lt(<<emon, ed>>, <<mon, day>>)

\* the header of parse_range_block: its two (month, day) ends and its year
range_of(m) ==
    [smon |-> MONTHS_get(m.groups.start_mon),
     sd   |-> ToInt(m.groups.start_day),
     emon |-> MONTHS_get(IF m.groups.end_mon # <<>> THEN m.groups.end_mon
                         ELSE m.groups.start_mon),
     ed   |-> ToInt(m.groups.end_day),
     year |-> ToInt(m.groups.year)]

\* one bullet that matched: skip is the range check's answer, rest what the
\* later bullets give
range_bullet(bm, skip, rest, year, c) ==
    IF IsRaised(skip) THEN skip
    ELSE IF IsRaised(rest) THEN rest
    ELSE IF skip.value THEN rest
    ELSE Returned(list_if(parse_date_time(
                      date_str(MONTHS_get(bm.groups.mon), ToInt(bm.groups.day), year),
                      bm.groups.time, c.local)) \o rest.value)

\* the loop of parse_range_block over bullets[k..]: Returned(sessions), or the
\* TypeError that ends the loop
RECURSIVE range_sessions(_, _, _, _)
range_sessions(bullets, k, r, c) ==
    IF k > Len(bullets) THEN Returned(<<>>)
    ELSE IF ~DATE_RANGE_BULLET(bullets[k]).ok THEN range_sessions(bullets, k + 1, r, c)
    ELSE range_bullet(DATE_RANGE_BULLET(bullets[k]),
                      out_of_range(MONTHS_get(DATE_RANGE_BULLET(bullets[k]).groups.mon),
                                   ToInt(DATE_RANGE_BULLET(bullets[k]).groups.day),
                                   r.smon, r.sd, r.emon, r.ed),
                      range_sessions(bullets, k + 1, r, c), r.year, c)

\* parse_range_block(node, header_line): bullets are the node's <li> texts
parse_range_block(bullets, header_line, c) ==
    IF RANGE_DATE_LINE(header_line).ok
    THEN range_sessions(bullets, 1, range_of(RANGE_DATE_LINE(header_line)), c)
    ELSE Returned(<<>>)

\* "\n".join(lines)
RECURSIVE join_lines(_)
join_lines(lines) ==
    IF lines = <<>> THEN <<>>
    ELSE IF Len(lines) = 1 THEN lines[1]
    ELSE lines[1] \o <<NL>> \o join_lines(Tail(lines))

\* str.splitlines() on text whose only line break is \n
RECURSIVE splitlines(_)
splitlines(text) ==
    IF text = <<>> THEN <<>>
    ELSE <<Slice(text, 1, Span(text, 1, NotNewline(text), Len(text)))>>
            \o splitlines(Slice(text, Span(text, 1, NotNewline(text), Len(text)) + 2,
                                Len(text)))

\* one line of the page that DATE_RANGE_BULLET matched
page_bullet(bm, c) ==
    IF MONTHS_get(bm.groups.mon) # NoMonth
    THEN list_if(parse_date_time(date_str(MONTHS_get(bm.groups.mon),
                                          ToInt(bm.groups.day), infer_year(c)),
                                 bm.groups.time, c.local))
    ELSE <<>>

\* the bullet loop of parse_event_page
RECURSIVE page_sessions(_, _, _)
page_sessions(lines, k, c) ==
    IF k > Len(lines) THEN <<>>
    ELSE IF DATE_RANGE_BULLET(lines[k]).ok
    THEN page_bullet(DATE_RANGE_BULLET(lines[k]), c) \o page_sessions(lines, k + 1, c)
    ELSE page_sessions(lines, k + 1, c)

\* parse_event_page once the page is fetched: m is what re.search found in text
page_text_sessions(text, m, c) ==
    IF m.ok
    THEN list_if(parse_date_time(m.groups.date_part, m.groups.time_part, c.local))
    ELSE page_sessions(splitlines(text), 1, c)

\* a slip: the try/except around fetch_soup is missing
parse_event_page_uncaught(page, c) ==
    IF IsRaised(page) THEN page
    ELSE Returned(page_text_sessions(join_lines(page.value),
                                     PAGE_DATE_search(join_lines(page.value)), c))

\* parse_event_page(url): page is what fetch_soup(url) gave, Returned(the page's
\* stripped strings), or the exception it raised; the function itself never
\* raises, so it always answers Returned(sessions)
parse_event_page(page, c) ==
    IF IsRaised(page) THEN Returned(<<>>)
    ELSE Returned(page_text_sessions(join_lines(page.value),
                                     PAGE_DATE_search(join_lines(page.value)), c))

(***************************************************************************)
(* datetime arithmetic and the conversion to UTC                           *)
(***************************************************************************)
UTC == "UTC"

\* the day after (y, m, d)
next_day(dt) ==
    IF dt.day < DaysInMonth(dt.year, dt.month) THEN [dt EXCEPT !.day = dt.day + 1]
    ELSE IF dt.month < 12 THEN [dt EXCEPT !.month = dt.month + 1, !.day = 1]
    ELSE [dt EXCEPT !.year = dt.year + 1, !.month = 1, !.day = 1]

\* dt + timedelta(hours=h) for 0 <= h <= 24: arithmetic on the wall clock, the
\* tzinfo kept
add_hours(dt, h) ==
    IF dt.hour + h < 24 THEN [dt EXCEPT !.hour = dt.hour + h]
    ELSE [next_day(dt) EXCEPT !.hour = dt.hour + h - 24]

\* date.toordinal(): the days since 0001-01-01, that day being 1
RECURSIVE days_before_month(_, _)
days_before_month(y, m) ==
    IF m = 1 THEN 0 ELSE days_before_month(y, m - 1) + DaysInMonth(y, m - 1)

toordinal(y, m, d) ==
    (y - 1) * 365 + (y - 1) \div 4 - (y - 1) \div 100 + (y - 1) \div 400
        + days_before_month(y, m) + d

\* date.weekday(): Monday is 0, Sunday is 6
weekday(y, m, d) == (toordinal(y, m, d) + 6) % 7

\* the n-th Sunday of month m of year y
nth_sunday(y, m, n) ==
    CHOOSE d \in (7 * n - 6)..(7 * n) : weekday(y, m, d) = 6

\* America/New_York since 2007: daylight time from 02:00 on the second Sunday of
\* March to 02:00 on the first Sunday of November (a wall time that occurs twice
\* that night is the first of the two, fold=0)
is_dst(dt) ==
    LET at == <<dt.month, dt.day, dt.hour>>
        from == <<3, nth_sunday(dt.year, 3, 2), 2>>
        to == <<11, nth_sunday(dt.year, 11, 1), 2>>
        le(a, b) == \/ a[1] < b[1]
                    \/ a[1] = b[1] /\ a[2] < b[2]
                    \/ a[1] = b[1] /\ a[2] = b[2] /\ a[3] <= b[3]
    IN  le(from, at) /\ ~le(to, at)

\* dt.astimezone(tz.UTC) for a datetime in SITE_TZ
astimezone_utc(dt) ==
    [add_hours(dt, IF is_dst(dt) THEN 4 ELSE 5) EXCEPT !.tzinfo = UTC]

\* a number in decimal, zero-padded to width digits
RECURSIVE zero_pad(_, _)
zero_pad(n, width) ==
    IF width = 0 THEN <<>> ELSE zero_pad(n \div 10, width - 1) \o <<DigitChar(n % 10)>>

\* strftime("%Y%m%dT%H%M%SZ"); the seconds of every datetime here are 0
strftime(dt) ==
    zero_pad(dt.year, 4) \o zero_pad(dt.month, 2) \o zero_pad(dt.day, 2) \o <<"T">>
        \o zero_pad(dt.hour, 2) \o zero_pad(dt.minute, 2) \o zero_pad(0, 2) \o <<"Z">>

\* datetimes of one zone compare on their wall-clock fields
dt_le(a, b) ==
    LET ka == <<a.year, a.month, a.day, a.hour, a.minute>>
        kb == <<b.year, b.month, b.day, b.hour, b.minute>>
    IN  \/ ka = kb
        \/ \E i \in 1..5 : ka[i] < kb[i] /\ \A j \in 1..(i - 1) : ka[j] = kb[j]

(***************************************************************************)
(* Event, to_ics, write_ics                                                *)
(***************************************************************************)
\* str.strip()
RECURSIVE strip(_)
strip(s) ==
    IF s = <<>> THEN s
    ELSE IF s[1] \in Whitespace THEN strip(Tail(s))
    ELSE IF s[Len(s)] \in Whitespace THEN strip(Slice(s, 1, Len(s) - 1))
    ELSE s

\* a slip: the default duration is added twice
default_end_twice(start_dt) ==
    add_hours(add_hours(start_dt, DEFAULT_EVENT_DURATION_HOURS),
              DEFAULT_EVENT_DURATION_HOURS)

\* start_dt + timedelta(hours=DEFAULT_EVENT_DURATION_HOURS)
default_end(start_dt) == add_hours(start_dt, DEFAULT_EVENT_DURATION_HOURS)

\* Event(title, start_dt, url=url, desc=desc): end_dt is never passed, so it is
\* None; a url or a desc that is None is the empty string here; uuid is the
\* fresh value uuid4() drew
Event(title, start_dt, url, desc, uuid) ==
    [title |-> strip(title), start |-> start_dt, end |-> default_end(start_dt),
     url |-> url, desc |-> strip(desc), uid |-> uuid]

\* the fixed text of the calendar lines
BEGIN_VCALENDAR ==
    <<"B", "E", "G", "I", "N", ":", "V", "C", "A", "L", "E", "N", "D", "A", "R">>
\* the calendar's own properties, the lines between BEGIN:VCALENDAR and the
\* first event
CALENDAR_PROPERTIES ==
    << <<"V", "E", "R", "S", "I", "O", "N", ":", "2", ".", "0">>,
       <<"P", "R", "O", "D", "I", "D", ":", "-", "/", "/", "l", "a", "n", "d", "m", "a",
         "r", "k", "-", "i", "c", "s", "/", "/", "E", "N">>,
       <<"C", "A", "L", "S", "C", "A", "L", "E", ":", "G", "R", "E", "G", "O", "R", "I",
         "A", "N">>,
       <<"M", "E", "T", "H", "O", "D", ":", "P", "U", "B", "L", "I", "S", "H">>,
       <<"X", "-", "W", "R", "-", "C", "A", "L", "N", "A", "M", "E", ":", "L", "a", "n",
         "d", "m", "a", "r", "k", " ", "T", "h", "e", "a", "t", "r", "e">>,
       <<"X", "-", "W", "R", "-", "T", "I", "M", "E", "Z", "O", "N", "E", ":", "A", "m",
         "e", "r", "i", "c", "a", "/", "N", "e", "w", "_", "Y", "o", "r", "k">> >>
END_VCALENDAR ==
    <<"E", "N", "D", ":", "V", "C", "A", "L", "E", "N", "D", "A", "R">>
BEGIN_VEVENT ==
    <<"B", "E", "G", "I", "N", ":", "V", "E", "V", "E", "N", "T">>
END_VEVENT ==
    <<"E", "N", "D", ":", "V", "E", "V", "E", "N", "T">>
UID_ ==
    <<"U", "I", "D", ":">>
UID_DOMAIN ==
    <<"@", "l", "a", "n", "d", "m", "a", "r", "k", "t", "h", "e", "a", "t", "r", "e",
      ".", "o", "r", "g">>
DTSTART_ ==
    <<"D", "T", "S", "T", "A", "R", "T", ":">>
DTEND_ ==
    <<"D", "T", "E", "N", "D", ":">>

\* Event.to_ics(): the lines of the VEVENT block (the method joins them with \n,
\* as write_ics joins its own lines)
to_ics(e, c) ==
    <<BEGIN_VEVENT,
      UID_ \o IntToStr(e.uid) \o UID_DOMAIN,
      <<"D", "T", "S", "T", "A", "M", "P", ":">> \o strftime(c.utc),
      DTSTART_ \o strftime(astimezone_utc(e.start)),
      DTEND_ \o strftime(astimezone_utc(e.end)),
      <<"S", "U", "M", "M", "A", "R", "Y", ":", "L", "a", "n", "d", "m", "a", "r", "k",
        ":", " ">> \o escape_ics(e.title)>>
    \o (IF e.url # <<>> THEN <<<<"U", "R", "L", ":">> \o escape_ics(e.url)>> ELSE <<>>)
    \o (IF e.desc # <<>>
        THEN <<<<"D", "E", "S", "C", "R", "I", "P", "T", "I", "O", "N", ":">>
                  \o escape_ics(e.desc)>>
        ELSE <<>>)
    \o <<END_VEVENT>>

\* sorted(events, key=lambda e: e.start): a stable insertion sort
RECURSIVE insert_sorted(_, _)
insert_sorted(sorted, e) ==
    IF sorted = <<>> THEN <<e>>
    ELSE IF dt_le(sorted[Len(sorted)].start, e.start) THEN Append(sorted, e)
    ELSE Append(insert_sorted(Slice(sorted, 1, Len(sorted) - 1), e), sorted[Len(sorted)])

RECURSIVE sorted_by_start(_)
sorted_by_start(evs) ==
    IF evs = <<>> THEN <<>>
    ELSE insert_sorted(sorted_by_start(Slice(evs, 1, Len(evs) - 1)), evs[Len(evs)])

RECURSIVE events_to_ics(_, _)
events_to_ics(evs, c) ==
    IF evs = <<>> THEN <<>> ELSE to_ics(evs[1], c) \o events_to_ics(Tail(evs), c)

\* a slip: the closing line is left out
write_ics_unterminated(evs, c) ==
    <<BEGIN_VCALENDAR>> \o CALENDAR_PROPERTIES
        \o events_to_ics(sorted_by_start(evs), c)

\* write_ics(events): the lines of calendar.ics, written in one f.write
write_ics(evs, c) ==
    <<BEGIN_VCALENDAR>> \o CALENDAR_PROPERTIES
        \o events_to_ics(sorted_by_start(evs), c)
        \o <<END_VCALENDAR>>

(***************************************************************************)
(* The listing page: the candidate nodes the scraper may meet.  A node is  *)
(* what parse_calendar reads of it: whether it has a title element and the *)
(* element's stripped text, its stripped_strings, the texts of its <li>    *)
(* elements, the href of its "Read More" link (empty: no such link, or the *)
(* link has no href; every href is an absolute URL, which urljoin returns  *)
(* as it is), the text of its first <p> (empty: none) and the stripped     *)
(* strings of the detail page behind the link.                             *)
(***************************************************************************)
\* a single date with its year: "October 20, 2025 - 8:00 pm" (the dash an en dash)
Node_single ==
    [title_el |-> TRUE,
     title |-> <<"C", "a", "t", "s">>,
     strings |->
        << <<"C", "a", "t", "s">>,
           <<"O", "c", "t", "o", "b", "e", "r", " ", "2", "0", ",", " ", "2", "0",
             "2", "5", " ", EnDash, " ", "8", ":", "0", "0", " ", "p", "m">>,
           <<"J", "e", "l", "l", "i", "c", "l", "e", ";", " ", "c", "a", "t", "s">>,
           <<"R", "e", "a", "d", " ", "M", "o", "r", "e">> >>,
     li |->
        <<>>,
     href |-> <<"h", "t", "t", "p", ":", "/", "/", "l", ".", "o", "r", "g", "/",
                "a", ",", "b">>,
     p |-> <<"J", "e", "l", "l", "i", "c", "l", "e", ";", " ", "c", "a", "t",
                "s">>,
     page |->
        << <<"C", "a", "t", "s">> >>]

\* a run "October 28 - November 1, 2025" with its sessions as bullets
Node_range ==
    [title_el |-> TRUE,
     title |-> <<"C", "a", "t", "s">>,
     strings |->
        << <<"C", "a", "t", "s">>,
           <<"O", "c", "t", "o", "b", "e", "r", " ", "2", "8", " ", EnDash, " ",
             "N", "o", "v", "e", "m", "b", "e", "r", " ", "1", ",", " ", "2", "0",
             "2", "5">>,
           <<"O", "c", "t", ".", " ", "3", "0", " ", EnDash, " ", "7", ":", "0",
             "0", "p", "m">>,
           <<"N", "o", "v", ".", " ", "3", " ", EnDash, " ", "7", ":", "0", "0",
             "p", "m">>,
           <<"S", "e", "p", "t", ".", " ", "1", "5", " ", EnDash, " ", "7", ":",
             "0", "0", "p", "m">>,
           <<"N", "o", "v", ".", " ", "1", " ", EnDash, " ", "2", ":", "0", "0",
             "P", "M", "*">> >>,
     li |->
        << <<"O", "c", "t", ".", " ", "3", "0", " ", EnDash, " ", "7", ":", "0",
             "0", "p", "m">>,
           <<"N", "o", "v", ".", " ", "3", " ", EnDash, " ", "7", ":", "0", "0",
             "p", "m">>,
           <<"S", "e", "p", "t", ".", " ", "1", "5", " ", EnDash, " ", "7", ":",
             "0", "0", "p", "m">>,
           <<"N", "o", "v", ".", " ", "1", " ", EnDash, " ", "2", ":", "0", "0",
             "P", "M", "*">> >>,
     href |-> <<>>,
     p |-> <<>>,
     page |->
        <<>>]

\* a single date that states no year: "December 5 - 7 pm"
Node_no_year ==
    [title_el |-> TRUE,
     title |-> <<"E", "l", "f">>,
     strings |->
        << <<"E", "l", "f">>,
           <<"D", "e", "c", "e", "m", "b", "e", "r", " ", "5", " ", "-", " ", "7",
             " ", "p", "m">> >>,
     li |->
        <<>>,
     href |-> <<>>,
     p |-> <<>>,
     page |->
        <<>>]

\* no date in the listing; the detail page lists sessions without a year
Node_page_bullets ==
    [title_el |-> TRUE,
     title |-> <<"E", "l", "f">>,
     strings |->
        << <<"E", "l", "f">>,
           <<"C", "o", "m", "i", "n", "g", " ", "s", "o", "o", "n">>,
           <<"R", "e", "a", "d", " ", "M", "o", "r", "e">> >>,
     li |->
        <<>>,
     href |-> <<"h", "t", "t", "p", ":", "/", "/", "l", ".", "o", "r", "g", "/",
                "e", "l", "f">>,
     p |-> <<"C", "o", "m", "i", "n", "g", " ", "s", "o", "o", "n">>,
     page |->
        << <<"E", "l", "f">>,
           <<"D", "e", "c", ".", " ", "5", " ", EnDash, " ", "7", ":", "3", "0",
             "P", "M">>,
           <<"J", "a", "n", ".", " ", "2", " ", "-", " ", "2", ":", "0", "0", "P",
             "M">>,
           <<"D", "e", "c", " ", "6", " ", "-", " ", "1", "p", "m">> >>]

\* no date in the listing; the detail page has a dated line
Node_page_date ==
    [title_el |-> TRUE,
     title |-> <<"A", "n", "n", "i", "e">>,
     strings |->
        << <<"A", "n", "n", "i", "e">>,
           <<"R", "e", "a", "d", " ", "M", "o", "r", "e">> >>,
     li |->
        <<>>,
     href |-> <<"h", "t", "t", "p", ":", "/", "/", "l", ".", "o", "r", "g", "/",
                "a", "n", "n", "i", "e">>,
     p |-> <<>>,
     page |->
        << <<"A", "n", "n", "i", "e">>,
           <<"M", "a", "r", "c", "h", " ", "8", ",", " ", "2", "0", "2", "6">>,
           <<EnDash>>,
           <<"1", "9", ":", "3", "0">> >>]

\* nothing that parses, in the listing or on the detail page
Node_tba ==
    [title_el |-> TRUE,
     title |-> <<"C", "a", "t", "s">>,
     strings |->
        << <<"C", "a", "t", "s">>,
           <<"F", "a", "l", "l", "2", "0", "2", "5", " ", "s", "e", "a", "s", "o",
             "n">>,
           <<"R", "e", "a", "d", " ", "M", "o", "r", "e">> >>,
     li |->
        <<>>,
     href |-> <<"h", "t", "t", "p", ":", "/", "/", "l", ".", "o", "r", "g", "/",
                "c", "a", "t", "s">>,
     p |-> <<>>,
     page |->
        << <<"C", "a", "t", "s">>,
           <<"T", "B", "A">> >>]

\* a run whose bullet abbreviates the month without a period
Node_bare_abbrev ==
    [title_el |-> TRUE,
     title |-> <<"A", "n", "n", "i", "e">>,
     strings |->
        << <<"A", "n", "n", "i", "e">>,
           <<"O", "c", "t", "o", "b", "e", "r", " ", "2", "8", " ", EnDash, " ",
             "N", "o", "v", "e", "m", "b", "e", "r", " ", "1", ",", " ", "2", "0",
             "2", "5">>,
           <<"O", "c", "t", " ", "3", "0", " ", EnDash, " ", "7", ":", "0", "0",
             "p", "m">> >>,
     li |->
        << <<"O", "c", "t", " ", "3", "0", " ", EnDash, " ", "7", ":", "0", "0",
             "p", "m">> >>,
     href |-> <<>>,
     p |-> <<>>,
     page |->
        <<>>]

\* a container with no h2, h3 or a element
Node_no_title ==
    [title_el |-> FALSE,
     title |-> <<>>,
     strings |->
        << <<"O", "c", "t", "o", "b", "e", "r", " ", "2", "0", ",", " ", "2", "0",
             "2", "5", " ", EnDash, " ", "8", ":", "0", "0", " ", "p", "m">> >>,
     li |->
        <<>>,
     href |-> <<>>,
     p |-> <<>>,
     page |->
        <<>>]

\* a date that does not exist: "Feb 30, 2026 - 8 pm"
Node_feb_30 ==
    [title_el |-> TRUE,
     title |-> <<"E", "l", "f">>,
     strings |->
        << <<"E", "l", "f">>,
           <<"F", "e", "b", " ", "3", "0", ",", " ", "2", "0", "2", "6", " ", "-",
             " ", "8", " ", "p", "m">> >>,
     li |->
        <<>>,
     href |-> <<>>,
     p |-> <<>>,
     page |->
        <<>>]

NodeTable ==
    <<Node_single,
      Node_range,
      Node_no_year,
      Node_page_bullets,
      Node_page_date,
      Node_tba,
      Node_bare_abbrev,
      Node_no_title,
      Node_feb_30>>

NodeIds == 1..Len(NodeTable)

\* What datetime.now() may answer: mid-November, mid-December, and the first
\* hours of January 1 UTC on a machine whose own zone is UTC, still December 31
\* in SITE_TZ.
Clock_november ==
    [local |-> [year |-> 2025, month |-> 11, day |-> 15],
     site  |-> [year |-> 2025, month |-> 11, day |-> 15],
     utc   |-> datetime(2025, 11, 15, 17, 0, UTC)]

Clock_december ==
    [local |-> [year |-> 2025, month |-> 12, day |-> 15],
     site  |-> [year |-> 2025, month |-> 12, day |-> 15],
     utc   |-> datetime(2025, 12, 15, 17, 0, UTC)]

Clock_new_year ==
    [local |-> [year |-> 2026, month |-> 1, day |-> 1],
     site  |-> [year |-> 2025, month |-> 12, day |-> 31],
     utc   |-> datetime(2026, 1, 1, 3, 0, UTC)]

Clocks == {Clock_november, Clock_december, Clock_new_year}

(***************************************************************************)
(* parse_calendar and main                                                 *)
(***************************************************************************)
\* \w: a letter, a digit or the underscore
WordChars == Letters \cup Digits \cup {"_"}

\* \b at the gap before position i of s
word_boundary(s, i) ==
    (i - 1 >= 1 /\ i - 1 <= Len(s) /\ s[i - 1] \in WordChars)
        # (i >= 1 /\ i <= Len(s) /\ s[i] \in WordChars)

\* re.search(r"\b(\d{4})\b", sib)
has_year(sib) ==
    \E i \in 1..Len(sib) :
        Span(sib, i, Digits, 4) = 4 /\ word_boundary(sib, i) /\ word_boundary(sib, i + 4)

\* re.search(r"\b(am|pm|AM|PM)\b", sib)
has_meridiem(sib) ==
    \E i \in 1..(Len(sib) - 1) :
        /\ Slice(sib, i, i + 1) \in {<<"a", "m">>, <<"p", "m">>, <<"A", "M">>, <<"P", "M">>}
        /\ word_boundary(sib, i) /\ word_boundary(sib, i + 2)

\* the last position of the line position i of s is on
end_of_line(s, i) == i + Span(s, i, NotNewline(s), Len(s)) - 1

\* whether ([A-Za-z]{3,9}[^\n]+\d{4}[^\n]*) matches at position i: three letters
\* there, and later on the same line four digits
fallback_at(s, i) ==
    /\ Span(s, i, Letters, 3) = 3
    /\ \E j \in (i + 4)..(end_of_line(s, i) - 3) : Span(s, j, Digits, 4) = 4

\* re.search(r"([A-Za-z]{3,9}[^\n]+\d{4}[^\n]*)", full_text): the leftmost match,
\* which runs to the end of its line; <<>> for no match
RECURSIVE fallback_from(_, _)
fallback_from(s, i) ==
    IF i > Len(s) THEN <<>>
    ELSE IF fallback_at(s, i) THEN Slice(s, i, end_of_line(s, i))
    ELSE fallback_from(s, i + 1)

fallback_date_text(full_text) == fallback_from(full_text, 1)

\* the first of the strings that shows a year or a meridiem
RECURSIVE first_dated(_)
first_dated(strings) ==
    IF strings = <<>> THEN <<>>
    ELSE IF has_year(strings[1]) \/ has_meridiem(strings[1]) THEN strings[1]
    ELSE first_dated(Tail(strings))

\* the date_text parse_calendar finds in a node; <<>> for None
date_text_of(node) ==
    IF first_dated(node.strings) # <<>> THEN first_dated(node.strings)
    ELSE fallback_date_text(<<NL>> \o join_lines(node.strings))

\* which branch parse_calendar takes on date_text
is_range(date_text) == date_text # <<>> /\ RANGE_DATE_LINE(date_text).ok
is_single(date_text) == date_text # <<>> /\ SINGLE_DATE_LINE(date_text).ok

\* whether parse_calendar fetches the node's detail page
fetches_page(node) ==
    /\ ~is_range(date_text_of(node))
    /\ ~is_single(date_text_of(node))
    /\ node.href # <<>>

\* the dispatch of parse_calendar on date_text
sessions_from(node, date_text, fetched, c) ==
    IF is_range(date_text) THEN parse_range_block(node.li, date_text, c)
    ELSE IF is_single(date_text) THEN Returned(parse_single_date_line(date_text, c))
    ELSE IF node.href # <<>> THEN parse_event_page(IF fetched THEN Returned(node.page)
                          ELSE Raised("RequestException"), c)
    ELSE Returned(<<>>)

\* the sessions parse_calendar extracts from a node, Returned(sessions), or the
\* exception that leaves parse_calendar; fetched is whether the request for the
\* detail page, if one is made, succeeds
sessions_of(node, fetched, c) == sessions_from(node, date_text_of(node), fetched, c)

\* sessions_of on the nodes, fetch outcomes and clocks of the model, worked out
\* once
sessions_table ==
    [n \in NodeIds, fetched \in BOOLEAN, c \in Clocks |->
        sessions_of(NodeTable[n], fetched, c)]

\* for start_dt in sessions: events.append(Event(title, start_dt, url=url, desc=desc))
RECURSIVE new_events(_, _, _)
new_events(node, sessions, count) ==
    IF sessions = <<>> THEN <<>>
    ELSE <<Event(node.title, sessions[1], node.href, node.p, count + 1)>>
             \o new_events(node, Tail(sessions), count + 1)

\* whether the loop body ends at one of its first two `continue`s
skipped_by_title(node, seen) ==
    ~node.title_el \/ node.title = <<>> \/ node.title \in seen

\* a slip: no title is ever remembered
seen_after_forgets(node, seen, sessions) == seen

\* a slip: a title is remembered as soon as its node is looked at
seen_after_at_first_sight(node, seen, sessions) == seen \cup {node.title}

\* seen_titles after a node that was not skipped by its title
seen_after(node, seen, sessions) ==
    IF sessions = <<>> THEN seen ELSE seen \cup {node.title}

Init ==
    /\ pc = "start"
    /\ clock \in Clocks
    /\ candidates = <<>>
    /\ events = <<>>
    /\ origin = <<>>
    /\ seen_titles = {}
    /\ file = [exists |-> FALSE]
    /\ status = -1
    /\ arg = <<>>
    /\ ret = <<>>

\* soup = fetch_soup(CAL_URL) answers
FetchCalendar ==
    /\ pc = "start"
    /\ pc' = "nodes"
    /\ UNCHANGED <<clock, candidates, events, origin, seen_titles, file, status, arg, ret>>

\* fetch_soup(CAL_URL) raises: nothing catches it and the interpreter exits 1
FetchCalendarFails ==
    /\ pc = "start"
    /\ pc' = "raised"
    /\ status' = 1
    /\ UNCHANGED <<clock, candidates, events, origin, seen_titles, file, arg, ret>>

\* one pass of `for node in candidates`
ProcessNode(n, fetched) ==
    LET node == NodeTable[n]
        r == sessions_table[n, fetched, clock]
    IN  /\ pc = "nodes"
        /\ Len(candidates) < MaxCandidates
        /\ fetched \/ (~skipped_by_title(node, seen_titles) /\ fetches_page(node))
        /\ candidates' = Append(candidates, [node |-> n, fetched |-> fetched])
        /\ IF skipped_by_title(node, seen_titles)
           THEN UNCHANGED <<pc, events, origin, seen_titles, status>>
           ELSE IF IsRaised(r)
           THEN /\ pc' = "raised"
                /\ status' = 1
                /\ UNCHANGED <<events, origin, seen_titles>>
           ELSE /\ events' = events \o new_events(node, r.value, Len(events))
                /\ origin' = origin \o [k \in 1..Len(r.value) |-> Len(candidates) + 1]
                /\ seen_titles' = seen_after(node, seen_titles, r.value)
                /\ UNCHANGED <<pc, status>>
        /\ UNCHANGED <<clock, file, arg, ret>>

\* the loop is over: return events
ReturnEvents ==
    /\ pc = "nodes"
    /\ pc' = "main"
    /\ UNCHANGED <<clock, candidates, events, origin, seen_titles, file, status, arg, ret>>

\* main: if not events: print(...); sys.exit(1)
MainNoEvents ==
    /\ pc = "main"
    /\ events = <<>>
    /\ pc' = "exit"
    /\ status' = 1
    /\ UNCHANGED <<clock, candidates, events, origin, seen_titles, file, arg, ret>>

\* main: write_ics(events, path="calendar.ics"), then the interpreter exits 0
MainWrite ==
    /\ pc = "main"
    /\ events # <<>>
    /\ file' = [exists |-> TRUE, lines |-> write_ics(events, clock)]
    /\ pc' = "exit"
    /\ status' = 0
    /\ UNCHANGED <<clock, candidates, events, origin, seen_titles, arg, ret>>

Next ==
    \/ FetchCalendar
    \/ FetchCalendarFails
    \/ \E n \in NodeIds, fetched \in BOOLEAN : ProcessNode(n, fetched)
    \/ ReturnEvents
    \/ MainNoEvents
    \/ MainWrite

Spec == Init /\ [][Next]_vars

(***************************************************************************)
(* The functions applied on their own: escape_ics to every short text,     *)
(* parse_date_time to every time of the twelve-hour clock, and             *)
(* parse_range_block to a header and one bullet.  The variables of the run *)
(* keep their initial values.                                              *)
(***************************************************************************)
NoRun ==
    /\ clock = Clock_november
    /\ candidates = <<>>
    /\ events = <<>>
    /\ origin = <<>>
    /\ seen_titles = {}
    /\ file = [exists |-> FALSE]
    /\ status = -1

\* the characters escape_ics replaces, the letter n its output introduces, and
\* one character more
Texts == UNION {[1..k -> {BS, ";", ",", NL, "n", "a"}] : k \in 0..MaxTextLen}

InitEscape ==
    /\ pc = "call"
    /\ arg \in Texts
    /\ ret = <<>>
    /\ NoRun

\* escape_ics(arg)
Escape ==
    /\ pc = "call"
    /\ pc' = "once"
    /\ ret' = <<escape_ics(arg)>>
    /\ UNCHANGED <<clock, candidates, events, origin, seen_titles, file, status, arg>>

\* escape_ics applied to its own result
EscapeAgain ==
    /\ pc = "once"
    /\ pc' = "twice"
    /\ ret' = Append(ret, escape_ics(ret[1]))
    /\ UNCHANGED <<clock, candidates, events, origin, seen_titles, file, status, arg>>

SpecEscape == InitEscape /\ [][Escape \/ EscapeAgain]_vars

\* the ways the site writes a meridiem, and what may stand before it
Meridiems ==
    {<<"a", "m">>, <<"p", "m">>, <<"A", "M">>, <<"P", "M">>, <<"A", "m">>, <<"p", "M">>}

Times ==
    {t \in [h : 1..12, m : 0..59, with_min : BOOLEAN, ampm : Meridiems,
            space : BOOLEAN, star : BOOLEAN] : t.with_min \/ t.m = 0}

\* the time as the site writes it: "7:05 pm", "7PM*"
time_text(t) ==
    IntToStr(t.h)
        \o (IF t.with_min THEN <<":">> \o zero_pad(t.m, 2) ELSE <<>>)
        \o (IF t.space THEN <<" ">> ELSE <<>>)
        \o t.ampm
        \o (IF t.star THEN <<"*">> ELSE <<>>)

InitTime ==
    /\ pc = "call"
    /\ arg \in Times
    /\ ret = <<>>
    /\ NoRun

\* parse_date_time("10/20/2025", time_text(arg))
CallParseDateTime ==
    /\ pc = "call"
    /\ pc' = "returned"
    /\ ret' = parse_date_time(<<"1", "0", "/", "2", "0", "/", "2", "0", "2", "5">>,
                               time_text(arg), clock.local)
    /\ UNCHANGED <<clock, candidates, events, origin, seen_titles, file, status, arg>>

SpecTime == InitTime /\ [][CallParseDateTime]_vars

\* range headers: "October 28 - November 1, 2025" and, its end month left out,
\* "October 3 - 9, 2025"
Header_two_months ==
    Str_October \o <<" ", "2", "8", " ", EnDash, " ">> \o Str_November
        \o <<" ", "1", ",", " ", "2", "0", "2", "5">>

Header_one_month ==
    Str_October \o <<" ", "3", " ", "-", " ", "9", ",", " ", "2", "0", "2", "5">>

\* a header and a bullet under it; the bullet's month is an abbreviation with
\* its period or without it
Bullets ==
    [header : {Header_two_months, Header_one_month},
     mon : { <<"O", "c", "t">>, <<"O", "c", "t", ".">>, <<"N", "o", "v">>,
             <<"N", "o", "v", ".">>, <<"S", "e", "p">>, <<"S", "e", "p", "t", ".">>,
             <<"M", "a", "y">> },
     day : {1, 3, 9, 15, 27, 28, 30},
     dash : Dashes]

\* the bullet as the site writes it: "Oct 30 - 7:00pm"
bullet_text(b) ==
    b.mon \o <<" ">> \o IntToStr(b.day) \o <<" ", b.dash, " ">>
        \o <<"7", ":", "0", "0", "p", "m">>

InitRange ==
    /\ pc = "call"
    /\ arg \in Bullets
    /\ ret = <<>>
    /\ NoRun

\* parse_range_block(node, arg.header) on a node whose one <li> is the bullet
CallParseRangeBlock ==
    /\ pc = "call"
    /\ pc' = "returned"
    /\ ret' = parse_range_block(<<bullet_text(arg)>>, arg.header, clock)
    /\ UNCHANGED <<clock, candidates, events, origin, seen_titles, file, status, arg>>

SpecRange == InitRange /\ [][CallParseRangeBlock]_vars

(***************************************************************************)
(* The properties checked.  What they need of a run: candidate k's title,  *)
(* the sessions its node gives, and the starts of the events of a title.   *)
(***************************************************************************)
title_of(k) == NodeTable[candidates[k].node].title

has_title(k) == NodeTable[candidates[k].node].title_el /\ title_of(k) # <<>>

sessions_at(k) == sessions_table[candidates[k].node, candidates[k].fetched, clock]

yields(k) == has_title(k) /\ ~IsRaised(sessions_at(k)) /\ sessions_at(k).value # <<>>

produced(k) == \E i \in 1..Len(origin) : origin[i] = k

events_titled(T) == SelectSeq(events, LAMBDA e : e.title = T)

kept(T) == [i \in 1..Len(events_titled(T)) |-> events_titled(T)[i].start]

first_of(S) == CHOOSE k \in S : \A j \in S : k <= j

\* C1: the events of the result that share a title were all created from one
\* candidate container: once a container with title T has produced events, no
\* later container with title T adds any.
C1_OneContainerPerTitle ==
    /\ Len(origin) = Len(events)
    /\ \A i, j \in 1..Len(events) :
          events[i].title = events[j].title => origin[i] = origin[j]
    /\ \A k \in 1..Len(candidates) : \A j \in 1..(k - 1) :
          (has_title(j) /\ has_title(k) /\ title_of(j) = title_of(k) /\ produced(j))
              => ~produced(k)

\* C1 witness: a later container repeats the title of one that produced events,
\* is another node, and would have given sessions of its own.
C1_LaterContainerSkipped ==
    \E k \in 1..Len(candidates) : \E j \in 1..(k - 1) :
        /\ title_of(j) = title_of(k)
        /\ candidates[j].node # candidates[k].node
        /\ produced(j)
        /\ yields(k)
        /\ sessions_at(k) # sessions_at(j)

\* C2, as amended: the sessions kept for a title are those of the first
\* container carrying it that yields at least one session; when no container
\* carrying it yields a session, none are kept.
C2_FirstYieldingContainerKept ==
    \A k \in 1..Len(candidates) :
        has_title(k) =>
            IF \E j \in 1..Len(candidates) : title_of(j) = title_of(k) /\ yields(j)
            THEN kept(title_of(k)) =
                    sessions_at(first_of({j \in 1..Len(candidates) :
                                             title_of(j) = title_of(k) /\ yields(j)})).value
            ELSE kept(title_of(k)) = <<>>

\* C2 witness: the first container of a title gave no session, a later one of
\* the same title did, and its sessions are the ones kept.
C2_FirstGaveNothing ==
    \E k \in 1..Len(candidates) : \E j \in 1..(k - 1) :
        /\ has_title(j) /\ title_of(j) = title_of(k)
        /\ ~IsRaised(sessions_at(j)) /\ sessions_at(j).value = <<>>
        /\ yields(k)
        /\ kept(title_of(k)) = sessions_at(k).value

\* C2 as claimed: when two containers carry one title, the sessions kept are
\* those of the first of them, also when its date text yields no sessions.
C2_FirstContainerKept ==
    \A k \in 1..Len(candidates) : \A j \in 1..(k - 1) :
        (has_title(j) /\ title_of(j) = title_of(k)
            /\ \A i \in 1..(j - 1) : title_of(i) # title_of(j)
            /\ ~IsRaised(sessions_at(j)) /\ ~IsRaised(sessions_at(k)))
        => kept(title_of(j)) = sessions_at(j).value

\* the number of the lines of a file that are the line given
count_lines(lines, line) == Cardinality({i \in 1..Len(lines) : lines[i] = line})

\* C3: the output file is all-or-nothing.  When parse_calendar returns no events
\* the run ends with status 1 and no file; the file is written exactly when
\* parse_calendar returned at least one event, and then it is complete: the
\* header first, one VEVENT block for every event, END:VCALENDAR last.  A run
\* that ends with a non-zero status leaves no file.
C3_AllOrNothing ==
    /\ file.exists <=> (pc = "exit" /\ status = 0)
    /\ (pc = "exit" /\ events = <<>>) => (status = 1 /\ ~file.exists)
    /\ (pc = "exit" /\ events # <<>>) => file.exists
    /\ file.exists =>
          /\ events # <<>>
          /\ file.lines[1] = BEGIN_VCALENDAR
          /\ file.lines[Len(file.lines)] = END_VCALENDAR
          /\ count_lines(file.lines, BEGIN_VCALENDAR) = 1
          /\ count_lines(file.lines, END_VCALENDAR) = 1
          /\ count_lines(file.lines, BEGIN_VEVENT) = Len(events)
          /\ count_lines(file.lines, END_VEVENT) = Len(events)
          /\ \A k \in 1..Len(events) :
                count_lines(file.lines, UID_ \o IntToStr(events[k].uid) \o UID_DOMAIN) = 1

\* C3 witness: a run that extracted several events has written the file.
C3_FileWritten == pc = "exit" /\ file.exists /\ Len(events) >= 2

\* the months a bullet may name, by the first three letters of the abbreviation
AbbreviatedMonths ==
    { <<<<"J", "a", "n">>, 1>>, <<<<"F", "e", "b">>, 2>>, <<<<"M", "a", "r">>, 3>>,
      <<<<"A", "p", "r">>, 4>>, <<<<"M", "a", "y">>, 5>>, <<<<"J", "u", "n">>, 6>>,
      <<<<"J", "u", "l">>, 7>>, <<<<"A", "u", "g">>, 8>>, <<<<"S", "e", "p">>, 9>>,
      <<<<"O", "c", "t">>, 10>>, <<<<"N", "o", "v">>, 11>>, <<<<"D", "e", "c">>, 12>> }

\* the month of an abbreviation, with its trailing period or without
abbreviated_month(mon) ==
    (CHOOSE kv \in AbbreviatedMonths : kv[1] = Slice(mon, 1, 3))[2]

\* the window of each header: its first and its last (month, day)
window_of(header) ==
    IF header = Header_two_months THEN <<<<10, 28>>, <<11, 1>>>>
    ELSE <<<<10, 3>>, <<10, 9>>>>

\* (month, day) pairs compared lexicographically
pair_le(a, b) == a[1] < b[1] \/ (a[1] = b[1] /\ a[2] <= b[2])

in_window(b) ==
    /\ pair_le(window_of(b.header)[1], <<abbreviated_month(b.mon), b.day>>)
    /\ pair_le(<<abbreviated_month(b.mon), b.day>>, window_of(b.header)[2])

\* C4 as claimed: a bullet "<abbreviated month> <day> - 7:00pm", the month with
\* its period or without, yields exactly one instant (that day of 2025, 19:00 in
\* the site's zone) if its (month, day) lies within the header's inclusive
\* window, and none otherwise.
C4_WindowFilter ==
    pc = "returned" =>
        ret = Returned(IF in_window(arg)
                       THEN <<datetime(2025, abbreviated_month(arg.mon), arg.day,
                                       19, 0, SITE_TZ)>>
                       ELSE <<>>)

\* C5 as claimed: extraction never raises, so nothing but a failure to fetch the
\* listing page itself ends the run before parse_calendar has returned.
C5_ExtractionNeverRaises == pc = "raised" => candidates = <<>>

\* the hour of the day of hour h of the twelve-hour clock
hour_of_day(h, ampm) ==
    IF LowerStr(ampm) = <<"p", "m">> THEN (IF h = 12 THEN 12 ELSE h + 12)
    ELSE (IF h = 12 THEN 0 ELSE h)

\* C6: for a time "<h>[:<m>] am|pm" in any case, with or without a trailing *,
\* h in 1..12 and m in 0..59, parse_date_time gives an instant whose minute is m
\* (0 when omitted) and whose hour is h + 12 for pm unless h = 12 (then 12), h for
\* am unless h = 12 (then 0); the hour is in 0..23.
C6_MeridiemConversion ==
    pc = "returned" =>
        /\ ret # None
        /\ ret.minute = arg.m
        /\ ret.hour = hour_of_day(arg.h, arg.ampm)
        /\ ret.hour \in 0..23
        /\ <<ret.year, ret.month, ret.day>> = <<2025, 10, 20>>

\* C6 witness: midnight written "12:30 AM*" has come back as 00:30.
C6_MidnightParsed ==
    /\ pc = "returned"
    /\ arg.h = 12 /\ arg.m = 30 /\ arg.with_min /\ arg.star
    /\ arg.ampm = <<"A", "M">>
    /\ ret # None
    /\ ret.hour = 0 /\ ret.minute = 30

\* whether the text node n's sessions are read from states no year: a single
\* date line without its year, or the bullets of a detail page
states_no_year(n) ==
    \/ /\ ~is_range(date_text_of(NodeTable[n]))
       /\ is_single(date_text_of(NodeTable[n]))
       /\ SINGLE_DATE_LINE(date_text_of(NodeTable[n])).groups.year = <<>>
    \/ /\ fetches_page(NodeTable[n])
       /\ ~PAGE_DATE_search(join_lines(NodeTable[n].page)).ok

no_year_table == [n \in NodeIds |-> states_no_year(n)]

\* the year the rule gives: this year in the site's zone from January to
\* November, the next in December
year_by_rule(c) == IF c.site.month \in 1..11 THEN c.site.year ELSE c.site.year + 1

\* C7 as claimed: every instant read from text that states no year has the year
\* the inference rule gives.
C7_YearInferred ==
    \A i \in 1..Len(events) :
        no_year_table[candidates[origin[i]].node]
            => events[i].start.year = year_by_rule(clock)

\* C8: a step that processes a candidate whose detail page could not be fetched
\* adds no event, marks no title as seen, changes none of the events collected
\* so far, and leaves parse_calendar in its loop, ready for the next candidate.
C8_FailedFetchNotFatal ==
    [][\A n \in NodeIds :
          (pc = "nodes" /\ candidates' = Append(candidates, [node |-> n, fetched |-> FALSE]))
              => /\ events' = events
                 /\ origin' = origin
                 /\ seen_titles' = seen_titles
                 /\ pc' = "nodes"
                 /\ status' = status]_vars

\* C8 witness: a detail page could not be fetched, between a candidate that
\* produced events before it and one that produced events after it.
C8_FetchFailedMidway ==
    \E k \in 1..Len(candidates) :
        /\ ~candidates[k].fetched
        /\ \E j \in 1..(k - 1) : produced(j)
        /\ \E j \in (k + 1)..Len(candidates) : produced(j)

\* the minutes on the wall clock from 0001-01-01 00:00 to dt
wall_minutes(dt) ==
    ((toordinal(dt.year, dt.month, dt.day) - 1) * 24 + dt.hour) * 60 + dt.minute

\* whether lines holds an event's block: its UID line, two lines on its DTSTART
\* line and next its DTEND line
has_block(lines, uid_line, start_line, end_line) ==
    \E l \in 1..(Len(lines) - 3) :
        lines[l] = uid_line /\ lines[l + 2] = start_line /\ lines[l + 3] = end_line

\* C9: every event ends two hours after it starts, in the same zone; the events
\* of a candidate are one per session, in order; and the file gives each event's
\* start and end as they are in the event.
C9_EndIsStartPlusTwoHours ==
    /\ \A i \in 1..Len(events) :
          /\ events[i].end.tzinfo = events[i].start.tzinfo
          /\ wall_minutes(events[i].end) - wall_minutes(events[i].start) = 120
    /\ \A k \in 1..Len(candidates) :
          produced(k) => kept(title_of(k)) = sessions_at(k).value
    /\ file.exists =>
          \A i \in 1..Len(events) :
              has_block(file.lines,
                        UID_ \o IntToStr(events[i].uid) \o UID_DOMAIN,
                        DTSTART_ \o strftime(astimezone_utc(events[i].start)),
                        DTEND_ \o strftime(astimezone_utc(events[i].end)))

\* C9 witness: several events, one of them starting at 20:00, have been created
\* and written to the file.
C9_EventsWritten ==
    /\ file.exists
    /\ Len(events) >= 2
    /\ \E i \in 1..Len(events) : events[i].start.hour = 20

\* the characters escape_ics replaces
Escapable == {BS, ";", ",", NL}

\* the escaped form of one character
escaped_form(ch) ==
    IF ch = BS THEN <<BS, BS>>
    ELSE IF ch = ";" THEN <<BS, ";">>
    ELSE IF ch = "," THEN <<BS, ",">>
    ELSE IF ch = NL THEN <<BS, "n">>
    ELSE <<ch>>

RECURSIVE each_escaped(_)
each_escaped(s) ==
    IF s = <<>> THEN <<>> ELSE escaped_form(s[1]) \o each_escaped(Tail(s))

\* C10: escape_ics gives its input with each backslash, semicolon, comma and
\* newline replaced by its escaped form and every other character as it was, a
\* backslash it introduced not escaped again; and escaping the result of
\* escaping an input that has an escapable character changes it once more.
C10_EscapedOnce ==
    /\ pc \in {"once", "twice"} => ret[1] = each_escaped(arg)
    /\ (pc = "twice" /\ \E i \in 1..Len(arg) : arg[i] \in Escapable) => ret[2] # ret[1]

\* C10 witness: a text with a backslash and a semicolon has been escaped twice.
C10_EscapedTwice ==
    /\ pc = "twice"
    /\ \E i, j \in 1..Len(arg) : arg[i] = BS /\ arg[j] = ";"
    /\ ret[2] # ret[1]

====
